---- MODULE Spec2Model ----
(***************************************************************************)
(* Model of the banking transaction parsers: the handler registry          *)
(* (Parser.SUBCLASSES), the dispatcher (ParserFactory), the field          *)
(* converters of the BBT and USAA handlers and the per-file parse          *)
(* pipeline.                                                               *)
(*                                                                         *)
(* Text is modelled as a sequence of one-character strings, so that the    *)
(* regular expressions, slices and splits of the code are computed on the  *)
(* characters.  A Python value is a record with a "tag" field.  A call     *)
(* result is a record [exc, val]: exc = "" for a normal return of val,     *)
(* otherwise the name of the exception raised.                             *)
(***************************************************************************)
EXTENDS Integers, Sequences, FiniteSets, TLC

------------------------------------------------------------------------------
(* Python values and call results *)

NoneVal == [tag |-> "None"]
NaNVal == [tag |-> "nan"]
BoolVal(b) == [tag |-> "bool", b |-> b]
StrVal(s) == [tag |-> "str", s |-> s]
IntVal(n) == [tag |-> "int", n |-> n]
DecVal(coef, places) == [tag |-> "Decimal", coef |-> coef, places |-> places]
DateVal(y, m, d) == [tag |-> "date", year |-> y, month |-> m, day |-> d]

Return(v) == [exc |-> "", val |-> v]
Raise(e) == [exc |-> e, val |-> NoneVal]
Raised(r) == r.exc # ""

------------------------------------------------------------------------------
(* str operations *)

DIGITS == <<"0", "1", "2", "3", "4", "5", "6", "7", "8", "9">>
UPPER == <<"A", "B", "C", "D", "E", "F", "G", "H", "I", "J", "K", "L", "M",
           "N", "O", "P", "Q", "R", "S", "T", "U", "V", "W", "X", "Y", "Z">>
LOWER == <<"a", "b", "c", "d", "e", "f", "g", "h", "i", "j", "k", "l", "m",
           "n", "o", "p", "q", "r", "s", "t", "u", "v", "w", "x", "y", "z">>

IsDigit(c) == \E i \in 1..10 : DIGITS[i] = c
DigitVal(c) == (CHOOSE i \in 1..10 : DIGITS[i] = c) - 1
IsSpace(c) == c \in {" ", "\n", "\t"}
LowerChar(c) == IF \E i \in 1..26 : UPPER[i] = c
                THEN LOWER[CHOOSE i \in 1..26 : UPPER[i] = c]
                ELSE c
\* str.lower()
Lower(s) == [i \in 1..Len(s) |-> LowerChar(s[i])]

\* s[k:] with k counted from 0
From(s, k) == SubSeq(s, k + 1, Len(s))
\* s.startswith(p)
StartsWith(s, p) == Len(s) >= Len(p) /\ SubSeq(s, 1, Len(p)) = p
\* p in s, for two strings
Contains(s, p) ==
    \E i \in 1..(Len(s) - Len(p) + 1) : SubSeq(s, i, i + Len(p) - 1) = p
\* s.count(c) for a one-character c
Count(s, c) == Cardinality({i \in 1..Len(s) : s[i] = c})

RECURSIVE LStrip(_)
LStrip(s) == IF s # <<>> /\ IsSpace(Head(s)) THEN LStrip(Tail(s)) ELSE s
RECURSIVE RStrip(_)
RStrip(s) == IF s # <<>> /\ IsSpace(s[Len(s)])
             THEN RStrip(SubSeq(s, 1, Len(s) - 1)) ELSE s
\* s.strip()
Strip(s) == RStrip(LStrip(s))

RECURSIVE LStripChar(_, _)
LStripChar(s, c) == IF s # <<>> /\ Head(s) = c THEN LStripChar(Tail(s), c) ELSE s
RECURSIVE RStripChar(_, _)
RStripChar(s, c) == IF s # <<>> /\ s[Len(s)] = c
                    THEN RStripChar(SubSeq(s, 1, Len(s) - 1), c) ELSE s
\* s.strip(c)
StripChar(s, c) == RStripChar(LStripChar(s, c), c)

\* s.split(d) for a one-character d: always at least one field
RECURSIVE Split(_, _)
Split(s, d) ==
    IF \E i \in 1..Len(s) : s[i] = d
    THEN LET i == CHOOSE j \in 1..Len(s) : s[j] = d /\ \A k \in 1..(j - 1) : s[k] # d
         IN  <<SubSeq(s, 1, i - 1)>> \o Split(SubSeq(s, i + 1, Len(s)), d)
    ELSE <<s>>

\* d.join(parts)
RECURSIVE Join(_, _)
Join(parts, d) ==
    IF parts = <<>> THEN <<>>
    ELSE IF Len(parts) = 1 THEN parts[1]
    ELSE parts[1] \o d \o Join(Tail(parts), d)

AllDigits(s) == s # <<>> /\ \A i \in 1..Len(s) : IsDigit(s[i])
RECURSIVE ToNat(_)
ToNat(s) == IF s = <<>> THEN 0
            ELSE 10 * ToNat(SubSeq(s, 1, Len(s) - 1)) + DigitVal(s[Len(s)])

RECURSIVE StripZeros(_)
StripZeros(s) == IF s # <<>> /\ s[Len(s)] = "0"
                 THEN StripZeros(SubSeq(s, 1, Len(s) - 1)) ELSE s

------------------------------------------------------------------------------
(* decimal.Decimal(str) and int(str) *)

\* Decimal(s): surrounding whitespace is removed; an optional sign, then
\* digits with an optional point (digits, digits., digits.digits, .digits).
\* Anything else raises decimal.InvalidOperation, which is an
\* ArithmeticError and not a ValueError.  The value is kept exact: the
\* coefficient and the number of decimal places, trailing zeros removed, so
\* that equal decimals are equal records.  (Exponents, NaN and Infinity need
\* letters that the modelled inputs do not use.)
Decimal(str) ==
    LET s == Strip(str)
        signed == s # <<>> /\ s[1] \in {"+", "-"}
        body == IF signed THEN Tail(s) ELSE s
        parts == Split(body, ".")
        ip == parts[1]
        fp == IF Len(parts) = 2 THEN parts[2] ELSE <<>>
        wellformed ==
            /\ Len(parts) <= 2
            /\ ip = <<>> \/ AllDigits(ip)
            /\ fp = <<>> \/ AllDigits(fp)
            /\ ip # <<>> \/ fp # <<>>
        frac == StripZeros(fp)
        mag == ToNat(ip \o frac)
    IN  IF wellformed
        THEN Return(DecVal(IF signed /\ s[1] = "-" THEN 0 - mag ELSE mag, Len(frac)))
        ELSE Raise("InvalidOperation")

\* -1 * Decimal(...): an exception of the call passes through
Negate(d) == IF Raised(d) THEN d ELSE Return(DecVal(0 - d.val.coef, d.val.places))

\* int(s) as numpy applies it to a str: surrounding whitespace removed, an
\* optional sign, then digits; anything else raises ValueError.
ParseInt(str) ==
    LET s == Strip(str)
        signed == s # <<>> /\ s[1] \in {"+", "-"}
        body == IF signed THEN Tail(s) ELSE s
    IN  IF AllDigits(body)
        THEN Return(IntVal(IF signed /\ s[1] = "-" THEN 0 - ToNat(body) ELSE ToNat(body)))
        ELSE Raise("ValueError")

------------------------------------------------------------------------------
(* datetime.datetime.strptime(s, "%m/%d/%Y").date() *)

IsLeap(y) == (y % 4 = 0 /\ y % 100 # 0) \/ y % 400 = 0
DaysInMonth(y, m) ==
    IF m = 2 THEN (IF IsLeap(y) THEN 29 ELSE 28)
    ELSE IF m \in {4, 6, 9, 11} THEN 30 ELSE 31

\* %m is 1[0-2]|0[1-9]|[1-9], %d is 3[01]|[12]\d|0[1-9]|[1-9], %Y is four
\* digits; the whole string must be consumed, and date() needs a real day.
\* Every failure is a ValueError.
Strptime_or_none(s) ==
    LET parts == Split(s, "/")
        ok == /\ Len(parts) = 3
              /\ AllDigits(parts[1]) /\ Len(parts[1]) <= 2
              /\ ToNat(parts[1]) \in 1..12
              /\ AllDigits(parts[2]) /\ Len(parts[2]) <= 2
              /\ ToNat(parts[2]) \in 1..31
              /\ AllDigits(parts[3]) /\ Len(parts[3]) = 4
              /\ ToNat(parts[3]) >= 1
              /\ ToNat(parts[2]) <= DaysInMonth(ToNat(parts[3]), ToNat(parts[1]))
    IN  IF ok
        THEN Return(DateVal(ToNat(parts[3]), ToNat(parts[1]), ToNat(parts[2])))
        ELSE Return(NoneVal)
Strptime(s) ==
    LET parts == Split(s, "/")
        ok == /\ Len(parts) = 3
              /\ AllDigits(parts[1]) /\ Len(parts[1]) <= 2
              /\ ToNat(parts[1]) \in 1..12
              /\ AllDigits(parts[2]) /\ Len(parts[2]) <= 2
              /\ ToNat(parts[2]) \in 1..31
              /\ AllDigits(parts[3]) /\ Len(parts[3]) = 4
              /\ ToNat(parts[3]) >= 1
              /\ ToNat(parts[2]) <= DaysInMonth(ToNat(parts[3]), ToNat(parts[1]))
    IN  IF ok
        THEN Return(DateVal(ToNat(parts[3]), ToNat(parts[1]), ToNat(parts[2])))
        ELSE Raise("ValueError")

------------------------------------------------------------------------------
(* usaa.py: field converters *)

\* _pos_price_pattern = ^--\d+ and _neg_price_pattern = ^-\d+ (re.search)
usaa_pos_price_pattern(price) ==
    Len(price) >= 3 /\ price[1] = "-" /\ price[2] = "-" /\ IsDigit(price[3])
usaa_neg_price_pattern(price) ==
    Len(price) >= 2 /\ price[1] = "-" /\ IsDigit(price[2])

usaa_convert_price(price) ==
    IF usaa_pos_price_pattern(price) THEN Decimal(From(price, 2))
    ELSE IF usaa_neg_price_pattern(price) THEN Negate(Decimal(From(price, 1)))
         ELSE Return(NoneVal)

usaa_convert_date(date_field) ==
    LET stripped == StripChar(date_field, "\"")
        sub_fields == Split(stripped, "/")
    IN  IF Len(sub_fields) = 3 /\ Len(sub_fields[1]) = 1
        THEN Strptime(<<"0">> \o stripped)
        ELSE Strptime(stripped)

posted == <<"p", "o", "s", "t", "e", "d">>
usaa_convert_posted_anycase(posted_field) == Return(BoolVal(Lower(posted_field) = posted))
usaa_convert_posted(posted_field) == Return(BoolVal(posted_field = posted))

usaa_convert_category(category_field) == Return(StrVal(category_field))

------------------------------------------------------------------------------
(* bbt.py: field converters *)

\* _pos_price_pattern = ^\(\$ and _neg_price_pattern = ^\$\+ (the names are
\* the code's: the "pos" pattern marks the debit)
bbt_pos_price_pattern(price) == StartsWith(price, <<"(", "$">>)
bbt_neg_price_pattern(price) == StartsWith(price, <<"$", "+">>)

bbt_convert_price_unsigned(price) ==
    IF bbt_pos_price_pattern(price) THEN Decimal(SubSeq(price, 3, Len(price) - 1))
    ELSE IF bbt_neg_price_pattern(price) THEN Decimal(From(price, 2))
         ELSE Return(NoneVal)
bbt_convert_price(price) ==
    IF bbt_pos_price_pattern(price)
    THEN Negate(Decimal(SubSeq(price, 3, Len(price) - 1)))    \* price[2:-1]
    ELSE IF bbt_neg_price_pattern(price) THEN Decimal(From(price, 2))
         ELSE Return(NoneVal)

bbt_convert_date(date_field) == Strptime(date_field)

\* np.int16(text).  The text is read as an int, and a text that is no int
\* raises ValueError.  What becomes of an int outside the 16 bits depends on
\* the numpy installed: older releases keep the low 16 bits, newer ones
\* raise OverflowError.
VARIABLE numpy      \* which of the two the installed numpy does
Builds == {"wraps", "raises"}
Int16 == (0 - 32768)..32767
Wrap16(n) == ((n + 32768) % 65536) - 32768
np_int16(str) ==
    LET n == ParseInt(str)
    IN  IF Raised(n) \/ n.val.n \in Int16 THEN n
        ELSE IF numpy = "wraps" THEN Return(IntVal(Wrap16(n.val.n)))
        ELSE Raise("OverflowError")

bbt_convert_check_uncaught(check_number) ==
    IF check_number = StrVal(<<>>) THEN Return(IntVal(0 - 1))
    ELSE IF check_number = NoneVal THEN Return(IntVal(0 - 1))
    ELSE np_int16(check_number.s)

\* _convert_check: the ValueError of np.int16 is caught, nothing else is.
\* The argument is a Python value: a str or None.
bbt_convert_check(check_number) ==
    IF check_number = StrVal(<<>>) THEN Return(IntVal(0 - 1))
    ELSE IF check_number = NoneVal THEN Return(IntVal(0 - 1))
    ELSE LET n == np_int16(check_number.s)
         IN  IF n.exc = "ValueError" THEN Return(IntVal(0 - 1)) ELSE n

bbt_convert_posted_balance(balance) ==
    IF balance = <<>> THEN Return(NoneVal)
    ELSE IF StartsWith(balance, <<"$">>) THEN Decimal(From(balance, 1))
         ELSE Return(NoneVal)

\* The ordered keyword rules of _convert_category, matched on the lower-cased
\* description; a rule holds several alternatives.
CategoryRules == <<
    [keys |-> {<<"s", "a", "l", "a", "r", "y">>}, cat |-> "SALARY"],
    [keys |-> {<<"v", "e", "r", "i", "z", "o", "n">>}, cat |-> "COMMUNICATIONS"],
    [keys |-> {<<"m", "o", "n", "e", "y", "l", "i", "n", "e", " ", "f", "i", "d">>},
     cat |-> "INVESTMENTS"],
    [keys |-> {<<"k", "r", "o", "g", "e", "r">>, <<"g", "i", "a", "n", "t">>},
     cat |-> "GROCERIES"],
    [keys |-> {<<"v", "a", " ", "d", "m", "v">>}, cat |-> "TAXES"],
    [keys |-> {<<"d", "e", "n", "t", "a", "l">>,
               <<"w", "a", "l", "g", "r", "e", "e", "n", "s">>},
     cat |-> "MEDICAL"] >>

\* str(description): a missing cell read by pandas is the float nan
PyStr(v) == IF v.tag = "str" THEN v.s ELSE <<"n", "a", "n">>

\* description is None returns the enum member itself, every other path its
\* name.
bbt_convert_category(description) ==
    IF description = NoneVal THEN [tag |-> "enum", name |-> "UNKNOWN"]
    ELSE LET desc == Lower(PyStr(description))
             hit(i) == \E k \in CategoryRules[i].keys : Contains(desc, k)
         IN  IF \E i \in 1..Len(CategoryRules) : hit(i)
             THEN [tag |-> "name",
                   name |-> CategoryRules[CHOOSE i \in 1..Len(CategoryRules) :
                               hit(i) /\ \A j \in 1..(i - 1) : ~hit(j)].cat]
             ELSE [tag |-> "name", name |-> "UNKNOWN"]

------------------------------------------------------------------------------
(* Column names *)

\* utils.TransactionColumns, in declaration order
DATE == <<"D", "A", "T", "E">>
CHECK_NO == <<"C", "H", "E", "C", "K", "_", "N", "O">>
AMOUNT == <<"A", "M", "O", "U", "N", "T">>
DESCRIPTION == <<"D", "E", "S", "C", "R", "I", "P", "T", "I", "O", "N">>
BANK == <<"B", "A", "N", "K">>
ACCOUNT == <<"A", "C", "C", "O", "U", "N", "T">>
CATEGORY == <<"C", "A", "T", "E", "G", "O", "R", "Y">>
POSTED_BALANCE == <<"P", "O", "S", "T", "E", "D", "_", "B", "A", "L", "A", "N", "C", "E">>
TransactionColumns ==
    <<DATE, CHECK_NO, AMOUNT, DESCRIPTION, BANK, ACCOUNT, CATEGORY, POSTED_BALANCE>>

\* The column names of a BBT export
Date == <<"D", "a", "t", "e">>
TransactionType == <<"T", "r", "a", "n", "s", "a", "c", "t", "i", "o", "n", " ",
                     "T", "y", "p", "e">>
CheckNumber == <<"C", "h", "e", "c", "k", " ", "N", "u", "m", "b", "e", "r">>
Description == <<"D", "e", "s", "c", "r", "i", "p", "t", "i", "o", "n">>
Amount == <<"A", "m", "o", "u", "n", "t">>
DailyPostedBalance == <<"D", "a", "i", "l", "y", " ", "P", "o", "s", "t", "e", "d", " ",
                        "B", "a", "l", "a", "n", "c", "e">>

\* The field names Usaa gives the positional columns
date == <<"d", "a", "t", "e">>
description == <<"d", "e", "s", "c", "r", "i", "p", "t", "i", "o", "n">>
category == <<"c", "a", "t", "e", "g", "o", "r", "y">>
amount == <<"a", "m", "o", "u", "n", "t">>

\* A dict in insertion order is a sequence of <<key, value>> pairs
Keys(dict) == [i \in 1..Len(dict) |-> dict[i][1]]
HasKey(dict, k) == \E i \in 1..Len(dict) : dict[i][1] = k
Get(dict, k) == dict[CHOOSE i \in 1..Len(dict) : dict[i][1] = k][2]
InSeq(x, seq) == \E i \in 1..Len(seq) : seq[i] = x

Bbt_FIELD_2_TRANSACTION == <<
    <<Date, DATE>>, <<CheckNumber, CHECK_NO>>, <<Description, DESCRIPTION>>,
    <<Amount, AMOUNT>>, <<DailyPostedBalance, POSTED_BALANCE>> >>

Usaa_FIELD_NAME_TO_INDEX == <<
    <<posted, 0>>, <<date, 2>>, <<description, 4>>, <<category, 5>>, <<amount, 6>> >>

Usaa_FIELD_2_TRANSACTION == <<
    <<date, DATE>>, <<amount, AMOUNT>>, <<description, DESCRIPTION>>,
    <<category, CATEGORY>> >>

\* Bbt.COL_2_CONVERTER and Usaa.FIELD_CONVERTERS: the converter of a column,
\* applied to the text of a cell
Bbt_COL_2_CONVERTER(col, text) ==
    IF col = Date THEN bbt_convert_date(text)
    ELSE IF col = CheckNumber THEN bbt_convert_check(StrVal(text))
    ELSE IF col = Amount THEN bbt_convert_price(text)
    ELSE IF col = DailyPostedBalance THEN bbt_convert_posted_balance(text)
    ELSE IF text = <<>> THEN Return(NaNVal)       \* no converter: pandas' own reading
    ELSE Return(StrVal(text))

Usaa_FIELD_CONVERTERS(col, text) ==
    IF col = posted THEN usaa_convert_posted(text)
    ELSE IF col = date THEN usaa_convert_date(text)
    ELSE IF col = category THEN usaa_convert_category(text)
    ELSE IF col = amount THEN usaa_convert_price(text)
    ELSE IF text = <<>> THEN Return(NaNVal)       \* description has no converter
    ELSE Return(StrVal(text))

INSTITUTION(klass) == IF klass = "Bbt" THEN <<"b", "b", "t">> ELSE <<"u", "s", "a", "a">>

------------------------------------------------------------------------------
(* Files *)

\* A file is [name, lines]: the name is its path, a line is the sequence of
\* its comma-separated fields.  Every line of a file on disk ends with a
\* newline.
RawLine(fields) == Join(fields, <<",">>) \o <<"\n">>

Min(a, b) == IF a < b THEN a ELSE b

\* Parser.yield_header: the loop breaks after the line with i > rows, so
\* rows + 2 lines are yielded at most (the files modelled are far below the
\* 9000-byte hint of readlines).
yield_header(file, rows) ==
    [i \in 1..Min(Len(file.lines), rows + 2) |-> RawLine(file.lines[i])]

\* os.path.basename
Basename(filepath) == LET parts == Split(filepath, "/") IN parts[Len(parts)]

\* ^(prefix)([0-9]{4})_ on the base name, the prefix matched per character
\* against a set (the [aA] and [uU][sS][aA][aA] classes)
MatchFilename(classes, filename) ==
    LET n == Len(classes) IN
    /\ Len(filename) >= n + 5
    /\ \A i \in 1..n : filename[i] \in classes[i]
    /\ \A i \in (n + 1)..(n + 4) : IsDigit(filename[i])
    /\ filename[n + 5] = "_"

Bbt_FILENAME_PATTERN(filename) ==
    MatchFilename(<<{"a", "A"}, {"c"}, {"c"}, {"t"}, {"_"}>>, filename)
Usaa_FILENAME_PATTERN(filename) ==
    MatchFilename(<<{"u", "U"}, {"s", "S"}, {"a", "A"}, {"a", "A"}, {"_"}>>, filename)

Bbt_check_filename(filepath) == Bbt_FILENAME_PATTERN(Basename(filepath))

\* parse_account_number of both handlers: group 2 of the pattern as an int,
\* None when the name does not match
parse_account_number(klass, filepath) ==
    LET filename == Basename(filepath)
        n == 5                      \* both prefixes, acct_ and usaa_, are 5 long
    IN  IF (IF klass = "Bbt" THEN Bbt_FILENAME_PATTERN(filename)
            ELSE Usaa_FILENAME_PATTERN(filename))
        THEN IntVal(ToNat(SubSeq(filename, n + 1, n + 4)))
        ELSE NoneVal

------------------------------------------------------------------------------
(* Detection: is_file_parsable of the two handlers *)

\* Parser.field_names: the raw column names a handler expects in a header
field_2_transaction(klass) ==
    IF klass = "Bbt" THEN Bbt_FIELD_2_TRANSACTION ELSE Usaa_FIELD_2_TRANSACTION
field_names(klass) == Keys(field_2_transaction(klass))

\* Bbt.check_header with row = 0.  Without a header argument the first line
\* is read from the file and stays a str, so "h in line" looks for a
\* substring; a header argument is split into a list, so "h in line" looks
\* for an equal field.
Bbt_check_header(file, header) ==
    IF header = NoneVal
    THEN LET lines == yield_header(file, 0)
         IN  IF Len(lines) = 0 THEN Raise("IndexError")
             ELSE Return(BoolVal(\A i \in 1..Len(field_names("Bbt")) :
                                    Contains(lines[1], field_names("Bbt")[i])))
    ELSE LET line == Split(header.s, ",")
         IN  Return(BoolVal(\A i \in 1..Len(field_names("Bbt")) :
                               InSeq(field_names("Bbt")[i], line)))

Bbt_is_file_parsable(file, beginning) ==
    IF ~Bbt_check_filename(file.name) THEN Return(BoolVal(FALSE))
    ELSE Bbt_check_header(file, IF beginning = NoneVal THEN NoneVal
                                ELSE StrVal(Split(beginning.s, "\n")[1]))

\* Usaa.get_field
Usaa_get_field(line, column_name) ==
    LET fields == Split(line, ",")
        index == Get(Usaa_FIELD_NAME_TO_INDEX, column_name)
    IN  IF index + 1 > Len(fields) THEN Raise("IndexError")
        ELSE Usaa_FIELD_CONVERTERS(column_name, fields[index + 1])

Usaa_check_column_count(line) == Count(line, ",") + 1 = 7

\* check_date_column and check_amount_column: "try: return get_field(...)
\* is not None; except (ValueError, IndexError, KeyError): return False"
IsNotNone(r) ==
    IF r.exc \in {"ValueError", "IndexError", "KeyError"} THEN Return(BoolVal(FALSE))
    ELSE IF Raised(r) THEN r
    ELSE Return(BoolVal(r.val # NoneVal))

Usaa_check_date_column(line) == IsNotNone(Usaa_get_field(line, date))

Usaa_check_amount_column(line) == IsNotNone(Usaa_get_field(line, amount))

\* all(check() for check in checks) stops at the first false check
All(first, rest) == IF Raised(first) \/ ~first.val.b THEN first ELSE rest

Usaa_run_parse_checks(line) ==
    All(Return(BoolVal(Usaa_check_column_count(line))),
        All(Usaa_check_date_column(line), Usaa_check_amount_column(line)))

\* The beginning argument is not used: the first line is read from the file.
Usaa_is_file_parsable(file, beginning) ==
    LET lines == yield_header(file, 1)
    IN  IF Len(lines) = 0 THEN Return(BoolVal(FALSE))
        ELSE Usaa_run_parse_checks(lines[1])

is_file_parsable(klass, file, beginning) ==
    IF klass = "Bbt" THEN Bbt_is_file_parsable(file, beginning)
    ELSE Usaa_is_file_parsable(file, beginning)

------------------------------------------------------------------------------
(* Data frames: [cols, index, rows], a row being the cells in column order *)

EmptyFrame == [cols |-> <<>>, index |-> <<>>, rows |-> <<>>]
ColPos(frame, col) == CHOOSE i \in 1..Len(frame.cols) : frame.cols[i] = col
Cell(frame, r, col) == frame.rows[r][ColPos(frame, col)]

\* frame[col] = values: an existing column is overwritten in place, a new
\* one is appended
SetCol(frame, col, values) ==
    IF InSeq(col, frame.cols)
    THEN [frame EXCEPT !.rows = [r \in 1..Len(frame.rows) |->
                                   [frame.rows[r] EXCEPT ![ColPos(frame, col)] = values[r]]]]
    ELSE [frame EXCEPT !.cols = Append(frame.cols, col),
                       !.rows = [r \in 1..Len(frame.rows) |->
                                   Append(frame.rows[r], values[r])]]
\* frame[col] = scalar
FillCol(frame, col, v) == SetCol(frame, col, [r \in 1..Len(frame.rows) |-> v])

\* frame.rename(columns=mapping): the columns keep their positions
Rename(frame, mapping) ==
    [frame EXCEPT !.cols = [i \in 1..Len(frame.cols) |->
                              IF HasKey(mapping, frame.cols[i])
                              THEN Get(mapping, frame.cols[i]) ELSE frame.cols[i]]]

RECURSIVE SelectIdx(_, _)
SelectIdx(n, keep) ==
    IF n = 0 THEN <<>>
    ELSE IF n \in keep THEN Append(SelectIdx(n - 1, keep), n) ELSE SelectIdx(n - 1, keep)
\* frame.drop(the rows not in keep): the rows left keep their order and labels
KeepRows(frame, keep) ==
    LET idx == SelectIdx(Len(frame.rows), keep)
    IN  [frame EXCEPT !.index = [i \in 1..Len(idx) |-> frame.index[idx[i]]],
                      !.rows = [i \in 1..Len(idx) |-> frame.rows[idx[i]]]]

\* pandas applies the converters column by column; the first cell whose
\* converter raises ends read_csv with that exception ("" when none does)
CellsByColumn(frame) ==
    LET n == Len(frame.rows)
    IN  [k \in 1..(Len(frame.cols) * n) |->
            <<frame.cols[((k - 1) \div n) + 1],
              frame.rows[((k - 1) % n) + 1][((k - 1) \div n) + 1].s>>]

Converter(klass, col, text) ==
    IF klass = "Bbt" THEN Bbt_COL_2_CONVERTER(col, text)
    ELSE Usaa_FIELD_CONVERTERS(col, text)

\* the first exception of a sequence of call results, "" when none raised
FirstRaised(rs) ==
    IF \A i \in 1..Len(rs) : ~Raised(rs[i]) THEN ""
    ELSE rs[CHOOSE i \in 1..Len(rs) : Raised(rs[i]) /\ \A j \in 1..(i - 1) : ~Raised(rs[j])].exc

FirstExc(frame, klass) ==
    FirstRaised([k \in 1..Len(CellsByColumn(frame)) |->
                    Converter(klass, CellsByColumn(frame)[k][1], CellsByColumn(frame)[k][2])])

ConvertFrame(frame, klass) ==
    [frame EXCEPT !.rows = [r \in 1..Len(frame.rows) |->
        [c \in 1..Len(frame.cols) |->
            Converter(klass, frame.cols[c], frame.rows[r][c].s).val]]]

\* pd.read_csv before the converters run.  Usaa._parse_textfile reads the
\* columns of FIELD_NAME_TO_INDEX of a file without a header line; the rows
\* are labelled 0, 1, ...
Usaa_parse_textfile(file) ==
    [cols |-> Keys(Usaa_FIELD_NAME_TO_INDEX),
     index |-> [r \in 1..Len(file.lines) |-> r - 1],
     rows |-> [r \in 1..Len(file.lines) |->
                 [c \in 1..Len(Usaa_FIELD_NAME_TO_INDEX) |->
                     StrVal(file.lines[r][Usaa_FIELD_NAME_TO_INDEX[c][2] + 1])]]]

\* Parser.parse_textfile reads a file whose first line names the columns
parse_textfile(file) ==
    [cols |-> file.lines[1],
     index |-> [r \in 1..(Len(file.lines) - 1) |-> r - 1],
     rows |-> [r \in 1..(Len(file.lines) - 1) |->
                 [c \in 1..Len(file.lines[1]) |-> StrVal(file.lines[r + 1][c])]]]

RawFrame(klass, file) ==
    IF klass = "Usaa" THEN Usaa_parse_textfile(file) ELSE parse_textfile(file)

\* frame.drop(frame.loc[frame['posted'] == False].index, inplace=True)
Usaa_remove_unconfirmed_transactions(frame) ==
    KeepRows(frame, {r \in 1..Len(frame.rows) : Cell(frame, r, posted) # BoolVal(FALSE)})

\* the same with the account never filled in
Usaa_remap_bank_only(frame, account) ==
    FillCol(FillCol(Rename(FillCol(frame, BANK, StrVal(INSTITUTION("Usaa"))),
                           Usaa_FIELD_2_TRANSACTION), ACCOUNT, NoneVal),
            CHECK_NO, NoneVal)

Usaa_remap_column_names(frame, account) ==
    LET f1 == FillCol(frame, BANK, StrVal(INSTITUTION("Usaa")))
        f2 == FillCol(f1, ACCOUNT, account)
        f3 == Rename(f2, Usaa_FIELD_2_TRANSACTION)
    IN  FillCol(f3, CHECK_NO, NoneVal)

\* Parser.remap_cols: rename by field_2_transaction, then add every
\* TransactionColumns name that is missing, filled with None
RECURSIVE AddMissing(_, _)
AddMissing(frame, names) ==
    IF names = <<>> THEN frame
    ELSE AddMissing(IF InSeq(Head(names), frame.cols) THEN frame
                    ELSE FillCol(frame, Head(names), NoneVal), Tail(names))
remap_cols(klass, frame) == AddMissing(Rename(frame, field_2_transaction(klass)),
                                       TransactionColumns)

\* Parser.parse after the text is read: remap, then fill BANK and ACCOUNT
Parser_remap_and_fill(klass, frame, account) ==
    FillCol(FillCol(remap_cols(klass, frame), BANK, StrVal(INSTITUTION(klass))),
            ACCOUNT, account)

\* Bbt._fill_categories
Bbt_fill_categories(frame) ==
    SetCol(frame, CATEGORY,
           [r \in 1..Len(frame.rows) |-> bbt_convert_category(Cell(frame, r, DESCRIPTION))])

\* frame.astype({CHECK_NO: np.int16}): a None cell cannot be cast to an
\* integer ("" when the cast succeeds)
AstypeExc(frame) ==
    IF \E r \in 1..Len(frame.rows) : Cell(frame, r, CHECK_NO) = NoneVal
    THEN "TypeError" ELSE ""

------------------------------------------------------------------------------
(* The inputs: cell texts, rows, files and directories *)

MaxRows == 2
MaxFiles == 2

D_OK == <<"0", "1", "/", "0", "2", "/", "2", "0", "2", "0">>
D_SHORT == <<"1", "/", "0", "3", "/", "2", "0", "2", "0">>
D_BAD == <<"0", "2", "/", "3", "0", "/", "2", "0", "2", "0">>
forecasted == <<"f", "o", "r", "e", "c", "a", "s", "t", "e", "d">>

\* USAA rows: flag, -, date, -, description, category, amount
UsaaRow(flag, d, desc, amt) == <<flag, <<>>, d, <<>>, desc, <<"P", "a", "y">>, amt>>
U_FORECAST == UsaaRow(forecasted, D_SHORT, <<"F", "U", "N", "D", "S">>,
                      <<"-", "3", ".", "5", "0">>)
U_POSTED == UsaaRow(posted, D_OK, <<"S", "A", "L", "A", "R", "Y">>,
                    <<"-", "-", "1", ".", "2", "3">>)
U_PLAIN == UsaaRow(posted, D_OK, <<"S", "A", "L", "A", "R", "Y">>,
                   <<"1", "0", "0", "0">>)
U_BADDATE == UsaaRow(posted, D_BAD, <<"F", "O", "O", "D">>, <<"-", "2", "0", ".", "2", "5">>)
U_BADAMT == UsaaRow(posted, D_OK, <<"F", "O", "O", "D">>, <<"-", "1", "x">>)
U_OTHER == UsaaRow(<<"P", "o", "s", "t", "e", "d">>, D_OK, <<"F", "O", "O", "D">>,
                   <<"-", "0", ".", "0", "5">>)
UsaaRows == {U_FORECAST, U_POSTED, U_PLAIN, U_BADDATE, U_BADAMT, U_OTHER}

\* BBT rows in the export's own column order: Date, Transaction Type, Check
\* Number, Description, Amount, Daily Posted Balance
B_CREDIT == <<D_OK, <<"C", "r", "e", "d", "i", "t">>, <<>>,
              <<"L", "E", "G", "I", "T", " ", "S", "A", "L", "A", "R", "Y">>,
              <<"$", "+", "1", "0", "0", "0">>, <<"$", "0", ".", "0", "0">> >>
B_CHECK == <<D_SHORT, <<"P", "O", "S">>, <<"3", "0", "1">>,
             <<"K", "R", "O", "G", "E", "R">>, <<"(", "$", "4", "2", ")">>, <<>> >>
B_BADDATE == <<D_BAD, <<"P", "O", "S">>, <<>>, <<"K", "R", "O", "G", "E", "R">>,
               <<"(", "$", "4", "2", ")">>, <<"$", "9", "5", "8">> >>
B_BADAMT == <<D_OK, <<"P", "O", "S">>, <<>>, <<>>, <<"+", "1", "0", "0">>, <<>> >>
B_BADCHECK == <<D_OK, <<"P", "O", "S">>, <<"x">>, <<"V", "e", "r", "i", "z", "o", "n">>,
                <<"(", "$", "4", "2", ")">>, <<"9", "5", "8">> >>
B_BADBAL == <<D_OK, <<"P", "O", "S">>, <<>>, <<"K", "R", "O", "G", "E", "R">>,
              <<"(", "$", "4", "2", ")">>, <<"$", "x">> >>
B_BIGCHECK == <<D_OK, <<"C", "h", "e", "c", "k">>, <<"4", "0", "0", "0", "0">>,
                <<"G", "I", "A", "N", "T">>, <<"(", "$", "4", "2", ")">>, <<>> >>
BbtRows == {B_CREDIT, B_CHECK, B_BADDATE, B_BADAMT, B_BADCHECK, B_BADBAL, B_BIGCHECK}

\* Header layouts of a BBT-style file: the column names with the position of
\* each column's cell in the rows above
L_STD == << <<Date, 1>>, <<TransactionType, 2>>, <<CheckNumber, 3>>, <<Description, 4>>,
            <<Amount, 5>>, <<DailyPostedBalance, 6>> >>
L_ORDER == << <<Date, 1>>, <<Amount, 5>>, <<Description, 4>>, <<CheckNumber, 3>>,
              <<TransactionType, 2>>, <<DailyPostedBalance, 6>> >>
L_NOBAL == << <<Date, 1>>, <<TransactionType, 2>>, <<CheckNumber, 3>>, <<Description, 4>>,
              <<Amount, 5>> >>
L_REF == << <<Date, 1>>, <<TransactionType, 2>>, <<CheckNumber \o <<" ", "R", "e", "f">>, 3>>,
            <<Description, 4>>, <<Amount, 5>>, <<DailyPostedBalance, 6>> >>
Layouts == {L_STD, L_ORDER, L_NOBAL, L_REF}

BbtLines(layout, rows) ==
    <<Keys(layout)>> \o
    [r \in 1..Len(rows) |-> [c \in 1..Len(layout) |-> rows[r][layout[c][2]]]]

\* A first line that is a BBT header to Bbt and a seven-field data row to Usaa
AMBIGUOUS == <<Date, CheckNumber, D_OK, Description, Amount, DailyPostedBalance,
               <<"-", "1">> >>
JUNK == <<<<"t", "h", "i", "s">>, <<"i", "s">>, <<"w", "r", "o", "n", "g">> >>

N_BBT == <<"d", "/", "A", "c", "c", "t", "_", "1", "2", "3", "4", "_", "a">>
N_BBT2 == <<"d", "/", "a", "c", "c", "t", "_", "7", "3", "8", "9", "_", "b">>
N_USAA == <<"d", "/", "u", "s", "a", "a", "_", "5", "6", "7", "8", "_", "c">>
N_TMP == <<"d", "/", "t", "m", "p", "9">>

\* os.path.isfile(path) is the isfile field: a path that names no file has
\* no lines
File(name, lines) == [name |-> name, lines |-> lines, isfile |-> TRUE]
MissingFile(name) == [name |-> name, lines |-> <<>>, isfile |-> FALSE]

SeqsUpTo(S, n) == UNION {[1..k -> S] : k \in 0..n}

\* The files a session is constructed on directly
ParseFiles ==
    {File(N_BBT, BbtLines(l, rows)) : l \in Layouts, rows \in SeqsUpTo(BbtRows, MaxRows)}
    \cup {File(N_USAA, rows) : rows \in SeqsUpTo(UsaaRows, MaxRows)}
    \cup {File(N_TMP, <<JUNK>>), File(N_TMP, <<U_POSTED>>),
          File(N_TMP, BbtLines(L_STD, <<B_CREDIT>>))}

\* Paths that name no file
N_GONE == <<"d", "/", "A", "c", "c", "t", "_", "1", "2", "3", "4", "_", "g", "o", "n", "e">>
MissingFiles == {MissingFile(N_GONE), MissingFile(N_TMP)}

\* The files of a directory
DirFiles ==
    {File(N_BBT, BbtLines(L_STD, <<B_CREDIT, B_CHECK>>)),
     File(N_BBT2, BbtLines(L_STD, <<B_BADCHECK>>)),
     File(N_BBT2, BbtLines(L_STD, <<B_CREDIT, B_BADDATE>>)),
     File(N_USAA, <<U_FORECAST, U_POSTED>>),
     File(N_TMP, <<U_POSTED, U_FORECAST>>),
     File(N_TMP, <<U_PLAIN, U_POSTED>>),
     File(N_USAA, <<U_BADAMT>>),
     File(N_BBT, <<AMBIGUOUS>>),
     File(N_BBT2, BbtLines(L_NOBAL, <<B_CHECK>>)),
     File(N_TMP, <<JUNK>>)}

\* os.scandir: the entries of a directory, in any order; names are unique
Dirs == {d \in SeqsUpTo(DirFiles, MaxFiles) :
            \A i, j \in 1..Len(d) : i # j => d[i].name # d[j].name}

\* The amounts whose encodings are converted: whole values and values with
\* cents, as [coef, places] (coef / 10^places)
MaxAmount == 125
Amounts == {[coef |-> c, places |-> p] : c \in 0..MaxAmount, p \in {0, 2}}

RECURSIVE NatStr(_)
NatStr(n) == IF n < 10 THEN <<DIGITS[n + 1]>>
             ELSE NatStr(n \div 10) \o <<DIGITS[(n % 10) + 1]>>
ZFill(s, width) == [i \in 1..(width - Len(s)) |-> "0"] \o s
\* an amount written out: 123 with 2 places is 1.23, 5 with 2 places 0.05
Format(x) ==
    LET d == ZFill(NatStr(x.coef), x.places + 1)
    IN  IF x.places = 0 THEN d
        ELSE SubSeq(d, 1, Len(d) - x.places) \o <<".">>
             \o SubSeq(d, Len(d) - x.places + 1, Len(d))
\* the encodings of an amount: BBT debit and credit, BBT balance, USAA
\* "--", USAA "-", and the bare number
Debit(x) == <<"(", "$">> \o Format(x) \o <<")">>
Credit(x) == <<"$", "+">> \o Format(x)
Balance(x) == <<"$">> \o Format(x)
DoubleDash(x) == <<"-", "-">> \o Format(x)
Dash(x) == <<"-">> \o Format(x)
AmountTexts ==
    UNION {{Debit(x), Credit(x), Balance(x), DoubleDash(x), Dash(x), Format(x)} :
              x \in Amounts}

\* dates written MM/DD/YYYY, the days that do not exist included
Years == {2020, 2021}
FormatDate(y, m, d) ==
    ZFill(NatStr(m), 2) \o <<"/">> \o ZFill(NatStr(d), 2) \o <<"/">> \o ZFill(NatStr(y), 4)
DateTexts ==
    {FormatDate(y, m, d) : y \in Years, m \in 1..12, d \in 1..31}
    \cup {D_SHORT, <<"1", "/", "2", "/", "2", "0", "2", "0">>,
     <<"\"", "0", "1", "/", "0", "2", "/", "2", "0", "2", "0", "\"">>,
     <<"2", "0", "2", "0", "-", "0", "1", "-", "0", "2">>,
     <<"0", "1", "/", "0", "2", "/", "2", "0">>,
     <<"X", "_", "B", "A", "D", "_", "D", "A", "T", "E", "_", "X">>,
     <<"0", "1", "%", "1", "1", "%", "2", "0", "2", "0">>,
     <<"0", "1", "/", "0", "2", "/", "2", "0", "2", "0", " ">>}

\* texts that are no amount, no date and no check number
OtherTexts ==
    {<<>>, <<"4", "0", "0", "0", "0">>, <<"3", "2", "7", "6", "7">>, <<"3", "2", "7", "6", "8">>,
     <<"9", "9", "9", "9", "9">>,
     <<"a", "b", "c", "d", "e", "f">>,
     <<"a", "b", "c">>,
     <<"x">>,
     <<"+", "1", "0", "0">>,
     <<"$", "9", "0", "0", "0">>,
     <<"$", "1", "0", "0">>,
     <<"(", "$", "a", "b", "c", ")">>,
     <<"$", "+">>,
     <<"-", "-", "1", "x">>,
     <<"-", "1", "x">>,
     <<"$", "a", "b", "c">>,
     <<"(", "$">>,
     <<"-", "-">>,
     <<"-">>,
     <<"$">>,
     <<"x", "x", "1", "2", "3", ".", "4", "5">>,
     <<"(", "$", "1", ".", "2", ".", "3", ")">>,
     <<"9", "0", "0", "0">>,
     <<"3", "0", "1">>,
     <<"0">>,
     <<" ", "1", "2", " ">>,
     <<"1", ".", "5">>,
     <<"1", "2", "a">>,
     <<"-", "7">>,
     <<"X", "_", "B", "A", "D", "_", "A", "M", "O", "U", "N", "T", "_", "X">>}

\* first lines given to the USAA checks
LineAmounts == {[coef |-> 123, places |-> 2], [coef |-> 5, places |-> 2],
                [coef |-> 100, places |-> 0]}
LineTexts ==
    {Join(row, <<",">>) : row \in UsaaRows}
    \cup {Join(UsaaRow(posted, D_OK, <<"F", "O", "O", "D">>, amt), <<",">>) :
              amt \in UNION {{DoubleDash(x), Dash(x), Format(x)} : x \in LineAmounts}}
    \cup {RawLine(U_POSTED), <<"p", "o", "s", "t", "e", "d", ",", "n", "u", "l", "l", ",", "0", "1", "/", "1", "1", "/", "2", "0", "2", "0", ",", "n", "u", "l", "l", ",", "d", "e", "t", "a", "i", "l", ",", "c", "a", "t", "e", "g", "o", "r", "y", ",", "p", "r", "i", "c", "e", ",", "E", "X", "T", "R", "A", " ", "C", "O", "L", "U", "M", "N">>,
     <<"p", "o", "s", "t", "e", "d", ",", "n", "u", "l", "l", ",", "0", "1", "/", "1", "1", "/", "2", "0", "2", "0", ",", "n", "u", "l", "l", ",", "d", "e", "t", "a", "i", "l", ",", "c", "a", "t", "e", "g", "o", "r", "y">>,
     <<"p", "o", "s", "t", "e", "d", ",", "n", "u", "l", "l", ",", "X", "_", "B", "A", "D", "_", "D", "A", "T", "E", "_", "X", ",", "n", "u", "l", "l", ",", "d", "e", "t", "a", "i", "l", ",", "c", "a", "t", "e", "g", "o", "r", "y", ",", "-", "4", "2", ".", "0", "0">>,
     <<"p", "o", "s", "t", "e", "d", ",", "n", "u", "l", "l", ",", "0", "2", "/", "1", "2", "/", "2", "0", "2", "0", ",", "n", "u", "l", "l", ",", "d", "e", "t", "a", "i", "l", ",", "c", "a", "t", "e", "g", "o", "r", "y", ",", "X", "_", "B", "A", "D", "_", "A", "M", "O", "U", "N", "T", "_", "X">>}

\* paths given to Bbt._check_filename
PathTexts ==
    {N_BBT, N_BBT2, N_USAA, N_TMP, <<"A", "c", "c", "t", "_", "7", "3", "8", "9", "_", "a", "b">>,
     <<"/", "a", "r", "b", "i", "t", "r", "a", "r", "y", "/", "d", "i", "r", "/", "A", "c", "c", "t", "_", "7", "3", "8", "9", "_", "a", "b">>,
     <<"w", "x", "y", "z", "A", "c", "c", "t", "_", "7", "3", "8", "9", "_", "a", "b">>,
     <<"1", "2", "3", "4", "5", "A", "c", "c", "t", "_", "7", "3", "8", "9", "_", "a", "b">>,
     <<"A", "c", "c", "t", "_", "9", "9", "9", "9", "_", "a", "b">>,
     <<"A", "c", "c", "t", "_", "9", "9", "9", "9", ".", "c", "s", "v">>,
     <<"A", "c", "c", "t", "_", "7", "3", "8", "_", "a", "b">>,
     <<"A", "c", "c", "t", "_", "7", "3", "8", "9", "0", "_", "a", "b">>}

\* descriptions given to the classifier, some with the keywords of two rules
DescriptionTexts ==
    {<<"L", "E", "G", "I", "T", " ", "E", "M", "P", "L", "O", "Y", "E", "R", " ", "S", "A", "L", "A", "R", "Y">>,
     <<"K", "R", "O", "G", "E", "R", " ", "S", "T", "O", "R", "E">>,
     <<"V", "e", "r", "i", "z", "o", "n">>,
     <<"G", "I", "A", "N", "T">>,
     <<"V", "A", " ", "D", "M", "V">>,
     <<"D", "E", "N", "T", "A", "L">>,
     <<"W", "A", "L", "G", "R", "E", "E", "N", "S", " ", "D", "E", "B", "I", "T">>,
     <<"M", "O", "N", "E", "Y", "L", "I", "N", "E", " ", "F", "I", "D">>,
     <<"T", "R", "A", "N", "S", "F", "E", "R", " ", "F", "R", "O", "M">>,
     <<"C", "h", "e", "c", "k", " ", "P", "a", "y", "m", "e", "n", "t">>,
     <<"k", "r", "o", "g", "e", "r", " ", "s", "a", "l", "a", "r", "y">>,
     <<"S", "A", "L", "A", "R", "Y", " ", "K", "R", "O", "G", "E", "R">>,
     <<"d", "e", "n", "t", "a", "l", " ", "v", "e", "r", "i", "z", "o", "n">>,
     <<"g", "i", "a", "n", "t", " ", "v", "a", " ", "d", "m", "v">>,
     <<"w", "a", "l", "g", "r", "e", "e", "n", "s", " ", "g", "i", "a", "n", "t">>,
     <<"n", "a", "n">>}

\* the arguments of the calls made on their own: a str, None, or the nan
\* pandas reads from an empty cell
Args ==
    {StrVal(s) : s \in AmountTexts \cup DateTexts \cup OtherTexts \cup LineTexts
                       \cup PathTexts \cup DescriptionTexts}
    \cup {NoneVal, NaNVal}

HandlerClasses == {"Bbt", "Usaa"}

\* a class object: the class statement of that name executed for the def-th
\* time. Every execution of a class statement makes a new class object.
MaxDefs == 2
Class(name, def) == [name |-> name, def |-> def]

------------------------------------------------------------------------------
(* ParserFactory.from_file as a function of the registered handlers *)

Accepted(r) == ~Raised(r) /\ r.val.b

\* "for name, klass in self._parsers.items(): is_parsable =
\* klass.is_file_parsable(filepath, lines)": the results, in handler order
Detections(parsers, file) ==
    [i \in 1..Len(parsers) |->
        is_file_parsable(parsers[i].name, file,
                         StrVal(Join(yield_header(file, 8), <<"\n">>)))]

\* the handlers whose result is true, in handler order
RECURSIVE Matches(_, _)
Matches(parsers, rs) ==
    IF parsers = <<>> THEN <<>>
    ELSE IF Accepted(Head(rs))
         THEN <<Head(parsers).name>> \o Matches(Tail(parsers), Tail(rs))
    ELSE Matches(Tail(parsers), Tail(rs))

Outcome(ret, klass, exc) == [ret |-> ret, klass |-> klass, exc |-> exc]

\* what from_file does with the results: an exception of a handler leaves
\* from_file, no match returns None, one match its handler, more raise
SelectFirst(parsers, rs) ==
    IF FirstRaised(rs) # "" THEN Outcome("raise", "", FirstRaised(rs))
    ELSE IF Len(Matches(parsers, rs)) = 0 THEN Outcome("None", "", "")
    ELSE Outcome("Parser", Matches(parsers, rs)[1], "")
Select(parsers, rs) ==
    IF FirstRaised(rs) # "" THEN Outcome("raise", "", FirstRaised(rs))
    ELSE IF Len(Matches(parsers, rs)) = 0 THEN Outcome("None", "", "")
    ELSE IF Len(Matches(parsers, rs)) # 1 THEN Outcome("raise", "", "RuntimeError")
    ELSE Outcome("Parser", Matches(parsers, rs)[1], "")

from_file(parsers, file) == Select(parsers, Detections(parsers, file))

------------------------------------------------------------------------------
(* The state *)

VARIABLES
    SUBCLASSES,  \* Parser.SUBCLASSES: the registered handler classes, in order
    factory,     \* the ParserFactory: [made, parsers]
    dir,         \* the files of the directory of the batch
    next,        \* position of from_directory's loop in dir
    batch,       \* "idle", "running", "finished", "aborted"; "single": no batch
    error,       \* the exception that ended the batch or the session
    session,     \* the Parser instance at work and where its parse() stands
    results,     \* the Transactions emitted so far
    calls,       \* the from_file calls made so far, with their outcomes
    call         \* the call made on its own: [fn, arg, done, ret]

vars == <<SUBCLASSES, factory, dir, next, batch, error, session, results, calls, call, numpy>>

NoCall == [fn |-> "", arg |-> NoneVal, done |-> TRUE, ret |-> Return(NoneVal)]
NewCall(fn, arg) == [fn |-> fn, arg |-> arg, done |-> FALSE, ret |-> Return(NoneVal)]

NoSession == [klass |-> "", file |-> File(<<>>, <<>>), account |-> NoneVal,
              pc |-> "none", detect |-> Return(NoneVal), frame |-> EmptyFrame]

\* an instance that takes the account of the instance made before it, as
\* an attribute kept on the class would
NewSession_shared(klass, file) ==
    [klass |-> klass, file |-> file,
     account |-> IF session.pc = "none" THEN parse_account_number(klass, file.name)
                 ELSE session.account,
     pc |-> "UNPARSED", detect |-> Return(NoneVal), frame |-> EmptyFrame]

\* the instance Parser.__init__ leaves: the file path is kept, the account
\* is read from its name
NewSession(klass, file) ==
    [klass |-> klass, file |-> file,
     account |-> parse_account_number(klass, file.name),
     pc |-> "UNPARSED", detect |-> Return(NoneVal), frame |-> EmptyFrame]

\* Parser.__init__: "if not os.path.isfile(self.filepath): raise
\* FileNotFoundError"
Parser_init_unchecked(klass, file) == Return(NewSession(klass, file))
Parser_init(klass, file) ==
    IF ~file.isfile THEN Raise("FileNotFoundError")
    ELSE Return(NewSession(klass, file))

\* parse.py: no handler class is defined yet, a directory is given
InitBatch ==
    /\ SUBCLASSES = <<>>
    /\ factory = [made |-> FALSE, parsers |-> <<>>]
    /\ dir \in Dirs
    /\ next = 1
    /\ batch = "idle"
    /\ session = NoSession
    /\ call = NoCall

\* a handler is to be constructed on a path and parse() called on it
InitSession ==
    /\ SUBCLASSES = <<Class("Bbt", 1), Class("Usaa", 1)>>
    /\ factory = [made |-> FALSE, parsers |-> <<>>]
    /\ dir = <<>>
    /\ next = 1
    /\ batch = "single"
    /\ session = NoSession
    /\ \E klass \in HandlerClasses, file \in ParseFiles \cup MissingFiles :
           call = NewCall(klass, file)

Init ==
    /\ InitBatch \/ InitSession
    /\ numpy \in Builds
    /\ error = ""
    /\ results = <<>>
    /\ calls = <<>>

------------------------------------------------------------------------------
(* The batch: registration, the factory and from_directory *)

\* "cls.SUBCLASSES[cls.__name__] = cls" on a dict: a new name is added at
\* the end, a name that is present keeps its place and gets the new class
KeyIndex(d, name) == {i \in 1..Len(d) : d[i].name = name}
SetItem(d, cls) ==
    IF KeyIndex(d, cls.name) = {} THEN Append(d, cls)
    ELSE [i \in 1..Len(d) |-> IF d[i].name = cls.name THEN cls ELSE d[i]]
Defs(d, name) == IF KeyIndex(d, name) = {} THEN 0 ELSE d[CHOOSE i \in KeyIndex(d, name) : TRUE].def

\* Parser.__init_subclass__: a class statement registers the handler
DefineSubclass(klass) ==
    /\ batch = "idle"
    /\ ~factory.made
    /\ Defs(SUBCLASSES, klass) < MaxDefs
    /\ SUBCLASSES' = SetItem(SUBCLASSES, Class(klass, Defs(SUBCLASSES, klass) + 1))
    /\ UNCHANGED <<factory, dir, next, batch, error, session, results, calls, call, numpy>>

\* ParserFactory.__init__: the registry is copied once
NewFactory ==
    /\ batch = "idle"
    /\ ~factory.made
    /\ factory' = [made |-> TRUE, parsers |-> SUBCLASSES]
    /\ UNCHANGED <<SUBCLASSES, dir, next, batch, error, session, results, calls, call, numpy>>

\* ParserFactory.from_directory is called and its generator is iterated
FromDirectory ==
    /\ batch = "idle"
    /\ factory.made
    /\ batch' = "running"
    /\ UNCHANGED <<SUBCLASSES, factory, dir, next, error, session, results, calls, call, numpy>>

Idle == session.pc \in {"none", "DONE"}

\* one turn of from_directory's loop: from_file on the next file. An
\* exception leaves the generator and ends the iteration; None is skipped.
FromFile ==
    /\ batch = "running"
    /\ Idle
    /\ next <= Len(dir)
    /\ \E r \in {from_file(factory.parsers, dir[next])} :
           /\ calls' = Append(calls, [file |-> dir[next], ret |-> r.ret,
                                      klass |-> r.klass, exc |-> r.exc])
           /\ session' = IF r.ret = "Parser" THEN NewSession(r.klass, dir[next])
                         ELSE NoSession
           /\ batch' = IF r.ret = "raise" THEN "aborted" ELSE batch
           /\ error' = r.exc
    /\ next' = next + 1
    /\ UNCHANGED <<SUBCLASSES, factory, dir, results, call, numpy>>

\* the loop of from_directory runs out of files
EndOfDirectory ==
    /\ batch = "running"
    /\ Idle
    /\ next > Len(dir)
    /\ batch' = "finished"
    /\ UNCHANGED <<SUBCLASSES, factory, dir, next, error, session, results, calls, call, numpy>>

------------------------------------------------------------------------------
(* parse() of the session, a step at a time *)

\* klass(filepath): the constructor raises for a path that names no file,
\* else the instance exists
Construct ==
    /\ batch = "single"
    /\ ~call.done
    /\ \E r \in {Parser_init(call.fn, call.arg)} :
           /\ session' = IF Raised(r) THEN NoSession ELSE r.val
           /\ error' = r.exc
           /\ call' = [call EXCEPT !.done = TRUE,
                                   !.ret = IF Raised(r) THEN r ELSE Return(NoneVal)]
    /\ UNCHANGED <<SUBCLASSES, factory, dir, next, batch, results, calls, numpy>>

Parsing(pc) == batch \in {"running", "single"} /\ session.pc = pc

\* an exception leaves parse(); in a batch it leaves the loop over the
\* parsers as well
Reject(exc) ==
    /\ session' = [session EXCEPT !.pc = "REJECTED"]
    /\ error' = exc
    /\ batch' = IF batch = "running" THEN "aborted" ELSE batch
    /\ UNCHANGED <<SUBCLASSES, factory, dir, next, results, calls, call, numpy>>

Step(pc, frame) ==
    /\ session' = [session EXCEPT !.pc = pc, !.frame = frame]
    /\ UNCHANGED <<SUBCLASSES, factory, dir, next, batch, error, results, calls, call, numpy>>

\* parse() calls is_file_parsable(self.filepath) of its own class
Detect ==
    /\ Parsing("UNPARSED")
    /\ session' = [session EXCEPT
                     !.pc = "DETECTED",
                     !.detect = is_file_parsable(session.klass, session.file, NoneVal)]
    /\ UNCHANGED <<SUBCLASSES, factory, dir, next, batch, error, results, calls, call, numpy>>

\* "if not is_file_parsable: raise ValueError"
RejectFile ==
    /\ Parsing("DETECTED")
    /\ ~Accepted(session.detect)
    /\ Reject(IF Raised(session.detect) THEN session.detect.exc ELSE "ValueError")

\* read_csv: the cells are read, then converted; a converter that raises
\* ends the parse
ReadRaw ==
    /\ Parsing("DETECTED")
    /\ Accepted(session.detect)
    /\ Step("RAW_READ", RawFrame(session.klass, session.file))

Convert ==
    /\ Parsing("RAW_READ")
    /\ \E e \in {FirstExc(session.frame, session.klass)} :
           IF e # "" THEN Reject(e)
           ELSE Step("CONVERTED", ConvertFrame(session.frame, session.klass))

\* Usaa.parse: the rows not posted are dropped before the columns are renamed
RemoveUnconfirmed ==
    /\ Parsing("CONVERTED")
    /\ session.klass = "Usaa"
    /\ Step("FILTERED", Usaa_remove_unconfirmed_transactions(session.frame))

Remap ==
    \/ /\ Parsing("FILTERED")
       /\ Step("REMAPPED", Usaa_remap_column_names(session.frame, session.account))
    \/ /\ Parsing("CONVERTED")
       /\ session.klass = "Bbt"
       /\ Step("REMAPPED", Parser_remap_and_fill("Bbt", session.frame, session.account))

\* Bbt.parse: the categories are derived from the descriptions
FillCategories ==
    /\ Parsing("REMAPPED")
    /\ session.klass = "Bbt"
    /\ Step("CLASSIFIED", Bbt_fill_categories(session.frame))

\* parse() returns the frame; Bbt.parse casts CHECK_NO first
Finish ==
    /\ \/ Parsing("REMAPPED") /\ session.klass = "Usaa"
       \/ Parsing("CLASSIFIED")
    /\ \E e \in {IF session.klass = "Bbt" THEN AstypeExc(session.frame) ELSE ""} :
           IF e # "" THEN Reject(e)
           ELSE /\ session' = [session EXCEPT !.pc = "DONE"]
                /\ results' = Append(results, [path |-> session.file.name,
                                               klass |-> session.klass,
                                               frame |-> session.frame])
                /\ UNCHANGED <<SUBCLASSES, factory, dir, next, batch, error, calls, call, numpy>>

Next ==
    \/ \E klass \in HandlerClasses : DefineSubclass(klass)
    \/ NewFactory
    \/ FromDirectory
    \/ FromFile
    \/ EndOfDirectory
    \/ Construct
    \/ Detect
    \/ RejectFile
    \/ ReadRaw
    \/ Convert
    \/ RemoveUnconfirmed
    \/ Remap
    \/ FillCategories
    \/ Finish

Spec == Init /\ [][Next]_vars

------------------------------------------------------------------------------
(* The converters and checks called on their own, as the unit tests call
   them: one call with one argument, the outcome kept in call.ret *)

InitCall ==
    /\ SUBCLASSES = <<Class("Bbt", 1), Class("Usaa", 1)>>
    /\ factory = [made |-> FALSE, parsers |-> <<>>]
    /\ dir = <<>>
    /\ next = 1
    /\ batch = "calls"
    /\ session = NoSession
    /\ error = ""
    /\ results = <<>>
    /\ calls = <<>>
    /\ numpy \in Builds
    /\ \E arg \in Args : call = NewCall("", arg)

\* the call returns or raises
Called(fn, ret) ==
    /\ call' = [call EXCEPT !.fn = fn, !.done = TRUE, !.ret = ret]
    /\ UNCHANGED <<SUBCLASSES, factory, dir, next, batch, error, session, results, calls, numpy>>

\* a call is pending whose argument is a str
StrCall == batch = "calls" /\ ~call.done /\ call.arg.tag = "str"

Call_bbt_convert_price ==
    StrCall /\ Called("bbt._convert_price", bbt_convert_price(call.arg.s))
Call_bbt_convert_posted_balance ==
    StrCall /\ Called("bbt._convert_posted_balance", bbt_convert_posted_balance(call.arg.s))
Call_bbt_convert_date ==
    StrCall /\ Called("bbt._convert_date", bbt_convert_date(call.arg.s))
\* test_bbt.py passes '' and numerals; the converter also tests for None
Call_bbt_convert_check ==
    /\ batch = "calls" /\ ~call.done /\ call.arg.tag \in {"str", "None"}
    /\ Called("bbt._convert_check", bbt_convert_check(call.arg))
\* _fill_categories applies the classifier to every cell of the column
Call_bbt_convert_category ==
    /\ batch = "calls" /\ ~call.done
    /\ Called("bbt._convert_category", Return(bbt_convert_category(call.arg)))
Call_Bbt_check_filename ==
    StrCall /\ Called("Bbt._check_filename", Return(BoolVal(Bbt_check_filename(call.arg.s))))
Call_usaa_convert_price ==
    StrCall /\ Called("usaa._convert_price", usaa_convert_price(call.arg.s))
Call_usaa_convert_date ==
    StrCall /\ Called("usaa._convert_date", usaa_convert_date(call.arg.s))
Call_Usaa_get_field ==
    /\ StrCall
    /\ \/ Called("Usaa.get_field(date)", Usaa_get_field(call.arg.s, date))
       \/ Called("Usaa.get_field(amount)", Usaa_get_field(call.arg.s, amount))
Call_Usaa_check_amount_column ==
    StrCall /\ Called("Usaa.check_amount_column", Usaa_check_amount_column(call.arg.s))
Call_Usaa_run_parse_checks ==
    StrCall /\ Called("Usaa._run_parse_checks", Usaa_run_parse_checks(call.arg.s))

NextCall ==
    \/ Call_bbt_convert_price
    \/ Call_bbt_convert_posted_balance
    \/ Call_bbt_convert_date
    \/ Call_bbt_convert_check
    \/ Call_bbt_convert_category
    \/ Call_Bbt_check_filename
    \/ Call_usaa_convert_price
    \/ Call_usaa_convert_date
    \/ Call_Usaa_get_field
    \/ Call_Usaa_check_amount_column
    \/ Call_Usaa_run_parse_checks

CallSpec == InitCall /\ [][NextCall]_vars

------------------------------------------------------------------------------
(* Dispatch: what the claims say of from_file and from_directory *)

Registered == {factory.parsers[i].name : i \in 1..Len(factory.parsers)}

\* the handlers of the factory whose is_file_parsable returns true for a
\* file, given the beginning from_file reads
Accepts(klass, file) ==
    Accepted(is_file_parsable(klass, file, StrVal(Join(yield_header(file, 8), <<"\n">>))))
\* the same for the files of the directories, worked out once
AcceptsDirFile == [klass \in HandlerClasses, file \in DirFiles |-> Accepts(klass, file)]
AcceptingHandlers(file) ==
    {klass \in Registered : IF file \in DirFiles THEN AcceptsDirFile[klass, file]
                             ELSE Accepts(klass, file)}

\* C1: whenever two or more registered handlers accept the file, from_file
\* raises and returns no parser: it never picks one of the handlers
C1_AmbiguousRaises ==
    \A i \in 1..Len(calls) :
        Cardinality(AcceptingHandlers(calls[i].file)) >= 2
            => calls[i].ret = "raise" /\ calls[i].klass = ""

\* a from_file call on a file both handlers accept has raised RuntimeError
\* and left no session
C1_AmbiguousReached ==
    /\ calls # <<>>
    /\ Cardinality(AcceptingHandlers(calls[Len(calls)].file)) >= 2
    /\ calls[Len(calls)].exc = "RuntimeError"
    /\ session = NoSession
    /\ batch = "aborted"

\* C2: when exactly one registered handler accepts the file, from_file
\* returns a session of that handler on that file; when none accepts, it
\* returns None and does not raise
C2_OneOrNone ==
    \A i \in 1..Len(calls) :
        /\ Cardinality(AcceptingHandlers(calls[i].file)) = 1
             => calls[i].ret = "Parser" /\ calls[i].klass \in AcceptingHandlers(calls[i].file)
        /\ AcceptingHandlers(calls[i].file) = {} => calls[i].ret = "None"

\* from_file has raised on a file that no registered handler accepts
C2_RaisedWithoutMatch ==
    /\ calls # <<>>
    /\ AcceptingHandlers(calls[Len(calls)].file) = {}
    /\ calls[Len(calls)].ret = "raise"

\* C3: only the ambiguous-handler fault ends a batch early, and a batch that
\* has ended otherwise holds the result of every file that exactly one
\* handler accepts
C3_BatchCompletes ==
    /\ batch = "aborted" => error = "RuntimeError"
    /\ batch = "finished" =>
          \A i \in 1..Len(dir) :
              Cardinality(AcceptingHandlers(dir[i])) = 1
                  => \E j \in 1..Len(results) : results[j].path = dir[i].name

\* a batch has ended early, on a fault that is not the ambiguous one, with a
\* file left that exactly one handler accepts
C3_BatchLost ==
    /\ batch = "aborted"
    /\ error # "RuntimeError"
    /\ \E i \in next..Len(dir) : Cardinality(AcceptingHandlers(dir[i])) = 1

------------------------------------------------------------------------------
(* The two formats as the specification describes them *)

\* a USAA-style amount: --X.XX, -X.XX or an unprefixed X.XX
UsaaStyleRow(row) ==
    /\ Len(row) = 7
    /\ row[1] \in {posted, forecasted}
    /\ ~Raised(usaa_convert_date(row[3]))
    /\ ~Raised(Decimal(LStripChar(row[7], "-")))
    /\ Len(row[7]) - Len(LStripChar(row[7], "-")) <= 2
UsaaStyle(file) ==
    file.lines # <<>> /\ \A r \in 1..Len(file.lines) : UsaaStyleRow(file.lines[r])

\* a BBT-style file: named Acct_<4 digits>_<suffix>, a header naming Date,
\* Transaction Type, Check Number, Description, Amount and optionally Daily
\* Posted Balance, amounts written ($X.XX) or $+X.XX
BbtStyleAmount(text) ==
    \/ /\ StartsWith(text, <<"(", "$">>) /\ text[Len(text)] = ")"
       /\ ~Raised(Decimal(SubSeq(text, 3, Len(text) - 1)))
    \/ StartsWith(text, <<"$", "+">>) /\ ~Raised(Decimal(From(text, 2)))
BbtStyleCell(col, text) ==
    IF col = Date THEN ~Raised(Strptime(text))
    ELSE IF col = Amount THEN BbtStyleAmount(text)
    ELSE IF col = CheckNumber THEN text = <<>> \/ AllDigits(text)
    ELSE IF col = DailyPostedBalance
         THEN text = <<>> \/ (StartsWith(text, <<"$">>) /\ ~Raised(Decimal(From(text, 1))))
    ELSE TRUE
BbtStyle(file) ==
    /\ Bbt_FILENAME_PATTERN(Basename(file.name))
    /\ file.lines # <<>>
    /\ \A col \in {Date, TransactionType, CheckNumber, Description, Amount} :
          InSeq(col, file.lines[1])
    /\ \A c \in 1..Len(file.lines[1]) :
          file.lines[1][c] \in {Date, TransactionType, CheckNumber, Description, Amount,
                                DailyPostedBalance}
    /\ \A r \in 2..Len(file.lines) : \A c \in 1..Len(file.lines[1]) :
          BbtStyleCell(file.lines[1][c], file.lines[r][c])

\* C4: with Bbt and Usaa registered and a directory of well-formed BBT-style
\* and USAA-style files only, every from_file call returns a session, of Bbt
\* for a BBT-style file and of Usaa for a USAA-style file, no call hits the
\* ambiguous fault, and Usaa accepts no BBT-style file
C4_DetectionUniqueness ==
    (/\ Registered = {"Bbt", "Usaa"}
     /\ \A i \in 1..Len(dir) : BbtStyle(dir[i]) \/ UsaaStyle(dir[i]))
    => \A i \in 1..Len(calls) :
          /\ calls[i].ret = "Parser"
          /\ BbtStyle(calls[i].file) => calls[i].klass = "Bbt" /\ ~Accepts("Usaa", calls[i].file)
          /\ UsaaStyle(calls[i].file) => calls[i].klass = "Usaa"

\* from_file has returned None for a well-formed file, both handlers being
\* registered
C4_WellFormedSkipped ==
    /\ Registered = {"Bbt", "Usaa"}
    /\ calls # <<>>
    /\ BbtStyle(calls[Len(calls)].file) \/ UsaaStyle(calls[Len(calls)].file)
    /\ calls[Len(calls)].ret = "None"

------------------------------------------------------------------------------
(* The pipeline of one file *)

StageOrder == <<"UNPARSED", "DETECTED", "RAW_READ", "CONVERTED", "REMAPPED",
                "CLASSIFIED", "DONE">>
\* dropping the rows not posted is part of the stage that follows conversion
Stage(pc) == IF pc = "FILTERED" THEN "CONVERTED" ELSE pc
StageNo(pc) == CHOOSE i \in 1..Len(StageOrder) : StageOrder[i] = Stage(pc)

\* C5: a session moves through UNPARSED, DETECTED, RAW_READ, CONVERTED,
\* REMAPPED, CLASSIFIED, DONE one stage at a time in that order; DONE and
\* REJECTED are final, and REJECTED is entered only from DETECTED, RAW_READ
\* or CONVERTED
C5_StageOrder ==
    [][(session.pc # "none" /\ calls' = calls) =>
          \/ Stage(session'.pc) = Stage(session.pc)
          \/ /\ session.pc \notin {"DONE", "REJECTED"}
             /\ session'.pc # "REJECTED"
             /\ StageNo(session'.pc) = StageNo(session.pc) + 1
          \/ /\ session'.pc = "REJECTED"
             /\ Stage(session.pc) \in {"DETECTED", "RAW_READ", "CONVERTED"}]_vars

\* a Usaa session is DONE: it went from REMAPPED to DONE
C5_UsaaDone == session.klass = "Usaa" /\ session.pc = "DONE"

\* the text of a cell of the file as the handler reads it
RawCell(klass, file, r, col) == Cell(RawFrame(klass, file), r, col).s
Converts(r) == ~Raised(r) /\ r.val # NoneVal
DateCol(klass) == IF klass = "Bbt" THEN Date ELSE date
AmountCol(klass) == IF klass = "Bbt" THEN Amount ELSE amount
AnchorsConvert(klass, file, r) ==
    /\ Converts(Converter(klass, DateCol(klass), RawCell(klass, file, r, DateCol(klass))))
    /\ Converts(Converter(klass, AmountCol(klass), RawCell(klass, file, r, AmountCol(klass))))

\* C6: parse() emits a table only when the date and the amount of every row
\* of the file convert; a row whose date or amount does not convert fails
\* the parse
C6_AnchorFailureFails ==
    session.pc = "DONE" =>
        \A r \in 1..Len(RawFrame(session.klass, session.file).rows) :
            AnchorsConvert(session.klass, session.file, r)

\* a table was emitted that holds a row with a null amount
C6_NullAmountEmitted ==
    /\ session.pc = "DONE"
    /\ \E r \in 1..Len(session.frame.rows) : Cell(session.frame, r, AMOUNT) = NoneVal

\* C7: for a BBT-style file whose dates and amounts convert, whatever its
\* check numbers and posted balances are, parse() does not fail once the
\* file is detected and emits one record per data row, in input order
C7_RowKept ==
    (/\ session.klass = "Bbt"
     /\ session.pc \in {"REJECTED", "DONE"}
     /\ Accepted(session.detect)
     /\ \A col \in {Date, CheckNumber, Description, Amount} : InSeq(col, session.file.lines[1])
     /\ \A r \in 1..(Len(session.file.lines) - 1) : AnchorsConvert("Bbt", session.file, r))
    => /\ session.pc = "DONE"
       /\ session.frame.index = [r \in 1..(Len(session.file.lines) - 1) |-> r - 1]
       /\ \A r \in 1..Len(session.frame.rows) :
             Cell(session.frame, r, DESCRIPTION)
                 = Converter("Bbt", Description,
                             RawCell("Bbt", session.file, r, Description)).val

\* a Bbt parse has failed while converting the cells of a file whose dates
\* and amounts all convert
C7_BalanceRejected ==
    /\ session.klass = "Bbt"
    /\ session.pc = "REJECTED"
    /\ error = "InvalidOperation"
    /\ \A r \in 1..(Len(session.file.lines) - 1) : AnchorsConvert("Bbt", session.file, r)

\* C8: the table after remapping holds every canonical column
C8_RemapComplete ==
    session.pc \in {"REMAPPED", "CLASSIFIED", "DONE"} =>
        \A i \in 1..Len(TransactionColumns) : InSeq(TransactionColumns[i], session.frame.cols)

\* a Usaa table was remapped and has no POSTED_BALANCE column
C8_UsaaWithoutBalance ==
    /\ session.klass = "Usaa"
    /\ session.pc = "REMAPPED"
    /\ ~InSeq(POSTED_BALANCE, session.frame.cols)

\* two tables hold the canonical columns they share in the same order
SameOrder(f, g) ==
    \A i, j \in 1..Len(TransactionColumns) :
        LET a == TransactionColumns[i]
            b == TransactionColumns[j]
        IN  (InSeq(a, f.cols) /\ InSeq(b, f.cols) /\ InSeq(a, g.cols) /\ InSeq(b, g.cols))
            => (ColPos(f, a) < ColPos(f, b) <=> ColPos(g, a) < ColPos(g, b))

PostedLines(file) ==
    SelectIdx(Len(file.lines), {r \in 1..Len(file.lines) : file.lines[r][1] = posted})

\* C10: the rows of a USAA table, from the filter on, are exactly the lines
\* of the file whose flag is "posted", in input order; the filter acts on
\* the columns as read, before they are renamed
C10_PostedFilter ==
    (session.klass = "Usaa" /\ session.pc \in {"FILTERED", "REMAPPED", "DONE"}) =>
        /\ session.frame.index =
               [i \in 1..Len(PostedLines(session.file)) |-> PostedLines(session.file)[i] - 1]
        /\ \A i \in 1..Len(session.frame.rows) :
               session.frame.rows[i][3] = StrVal(session.file.lines[PostedLines(session.file)[i]][5])
        /\ session.pc = "FILTERED" => session.frame.cols = Keys(Usaa_FIELD_NAME_TO_INDEX)

\* a USAA table was emitted with some of the file's rows dropped and some kept
C10_SomeDropped ==
    /\ session.klass = "Usaa"
    /\ session.pc = "DONE"
    /\ session.frame.rows # <<>>
    /\ Len(session.frame.rows) < Len(session.file.lines)

------------------------------------------------------------------------------
(* Construction of a session *)

\* C11: constructing a handler on a path that names no file raises
\* FileNotFoundError and leaves no session; every session that exists, at
\* whatever stage, is on an existing file
C11_MissingFileRaises ==
    /\ (batch = "single" /\ call.done /\ ~call.arg.isfile)
           => /\ call.ret = Raise("FileNotFoundError")
              /\ error = "FileNotFoundError"
              /\ session = NoSession
    /\ session.pc # "none" => session.file.isfile

\* the constructor was called on a missing path and has raised
C11_MissingConstructed ==
    /\ batch = "single"
    /\ call.done
    /\ ~call.arg.isfile
    /\ Raised(call.ret)

------------------------------------------------------------------------------
(* Detection in two stages *)

\* the filename signature of a handler: its _FILENAME_PATTERN on the base name
FilenameSignature(klass, filepath) ==
    IF klass = "Bbt" THEN Bbt_FILENAME_PATTERN(Basename(filepath))
    ELSE Usaa_FILENAME_PATTERN(Basename(filepath))

\* C12: a handler whose filename signature fails for a file answers false
\* without looking at the content (so nothing in the content can make the
\* call raise), in parse() and in from_file alike
C12_FilenameFirst ==
    /\ (session.pc \notin {"none", "UNPARSED"}
         /\ ~FilenameSignature(session.klass, session.file.name))
           => session.detect = Return(BoolVal(FALSE))
    /\ \A i \in 1..Len(calls) : \A klass \in Registered :
           Accepts(klass, calls[i].file) => FilenameSignature(klass, calls[i].file.name)

\* Usaa has accepted a file whose name does not match usaa_<4 digits>_
C12_UsaaAcceptsAnyName ==
    /\ session.klass = "Usaa"
    /\ session.pc = "DETECTED"
    /\ ~FilenameSignature("Usaa", session.file.name)
    /\ Accepted(session.detect)


------------------------------------------------------------------------------
(* The USAA content signature *)

\* what the claim reads off a first line: seven fields, a date, an amount
SevenFields(line) == Len(Split(line, ",")) = 7
DateConverts(line) == ~Raised(usaa_convert_date(Split(line, ",")[3]))
AmountConverts(line) ==
    LET a == usaa_convert_price(Split(line, ",")[7])
    IN  ~Raised(a) /\ a.val # NoneVal

\* C13: Usaa._run_parse_checks accepts a first line exactly when it has
\* seven comma-separated fields, the third (index 2) converts to a date and
\* the seventh (index 6) converts to a non-null amount; for every other line
\* it returns false and does not raise.
C13_ContentSignature ==
    (call.done /\ call.fn = "Usaa._run_parse_checks") =>
        /\ ~Raised(call.ret)
        /\ call.ret.val.b = (/\ SevenFields(call.arg.s)
                             /\ DateConverts(call.arg.s)
                             /\ AmountConverts(call.arg.s))

\* the checks were run on a line of seven fields with a good date, and the
\* call raised
C13_ChecksRaised ==
    /\ call.done /\ call.fn = "Usaa._run_parse_checks"
    /\ SevenFields(call.arg.s) /\ DateConverts(call.arg.s)
    /\ call.ret = Raise("InvalidOperation")

------------------------------------------------------------------------------
(* The BBT filename signature *)

\* Bbt.FILE_PREFIX, and the account the handler is configured for:
\* Bbt.ACCOUNT, which the tests read and bbt.py does not define; the value
\* is the one of the specification's example
Bbt_FILE_PREFIX == <<"A", "c", "c", "t", "_">>
Bbt_ACCOUNT == <<"7", "3", "8", "9">>

\* the digits a text begins with
RECURSIVE LeadingDigits(_)
LeadingDigits(s) ==
    IF s # <<>> /\ IsDigit(s[1]) THEN <<s[1]>> \o LeadingDigits(Tail(s)) ELSE <<>>

\* prefix, configured account, underscore, any suffix
ExpectedFilename(filename) ==
    StartsWith(filename, Bbt_FILE_PREFIX \o Bbt_ACCOUNT \o <<"_">>)
\* characters in front of an expected name
ExtraLeading(filename) ==
    /\ ~ExpectedFilename(filename)
    /\ \E k \in 1..Len(filename) : ExpectedFilename(From(filename, k))
\* the prefix followed by an account number that is not the configured one
OtherAccount(filename) ==
    /\ StartsWith(filename, Bbt_FILE_PREFIX)
    /\ LeadingDigits(From(filename, Len(Bbt_FILE_PREFIX))) # Bbt_ACCOUNT

\* C14: Bbt._check_filename accepts a path whose base name is Acct_, the
\* configured account number, an underscore and any suffix, whatever the
\* directories in front; it rejects a base name with extra characters before
\* the prefix and a base name that carries another account number.
C14_FilenameSignature ==
    (call.done /\ call.fn = "Bbt._check_filename") =>
        /\ ExpectedFilename(Basename(call.arg.s)) => call.ret = Return(BoolVal(TRUE))
        /\ ExtraLeading(Basename(call.arg.s)) => call.ret = Return(BoolVal(FALSE))
        /\ OtherAccount(Basename(call.arg.s)) => call.ret = Return(BoolVal(FALSE))

\* a name that carries another account number was accepted
C14_OtherAccountAccepted ==
    /\ call.done /\ call.fn = "Bbt._check_filename"
    /\ OtherAccount(Basename(call.arg.s))
    /\ call.ret = Return(BoolVal(TRUE))

------------------------------------------------------------------------------
(* The converters of the fields *)

\* the four converters the specification asks never to raise
TotalConverters ==
    {"bbt._convert_price", "usaa._convert_price",
     "bbt._convert_posted_balance", "bbt._convert_check"}

\* C15: the BBT amount converter, the USAA amount converter, the BBT
\* posted-balance converter and the BBT check-number converter return a
\* value or the null/sentinel result for every string and never raise, a
\* recognised prefix followed by a body that is no number included.
C15_ConverterTotality ==
    (call.done /\ call.fn \in TotalConverters) => ~Raised(call.ret)

\* the BBT amount converter was given "($abc)" and raised
C15_PrefixedBodyRaised ==
    /\ call.done /\ call.fn = "bbt._convert_price"
    /\ call.arg = StrVal(<<"(", "$", "a", "b", "c", ")">>)
    /\ call.ret = Raise("InvalidOperation")

\* the decimal an amount [coef, places] stands for, as Decimal keeps it in
\* the model: without trailing zeros in the fraction
RECURSIVE Exact(_, _)
Exact(coef, places) ==
    IF places > 0 /\ coef % 10 = 0 THEN Exact(coef \div 10, places - 1)
    ELSE DecVal(coef, places)
Plus(x) == Exact(x.coef, x.places)
Minus(x) == Exact(0 - x.coef, x.places)

\* C16: for every decimal X, whole or with cents, the BBT _convert_price
\* gives -X for "($X)" and +X for "$+X", exactly; every string that starts
\* with neither "($" nor "$+" converts to null.
C16_BbtAmount ==
    (call.done /\ call.fn = "bbt._convert_price") =>
        /\ \A x \in Amounts :
               /\ call.arg.s = Debit(x) => call.ret = Return(Minus(x))
               /\ call.arg.s = Credit(x) => call.ret = Return(Plus(x))
        /\ (~StartsWith(call.arg.s, <<"(", "$">>) /\ ~StartsWith(call.arg.s, <<"$", "+">>))
               => call.ret = Return(NoneVal)

\* "($1.23)" was converted to -1.23
C16_DebitConverted ==
    /\ call.done /\ call.fn = "bbt._convert_price"
    /\ call.arg.s = Debit([coef |-> 123, places |-> 2])
    /\ call.ret = Return(DecVal(0 - 123, 2))

\* a number written with digits and at most one point; a text that is
\* neither such a number nor one behind "-" or "--" is non-numeric
Numeral(s) ==
    LET parts == Split(s, ".")
    IN  /\ Len(parts) \in {1, 2}
        /\ \A i \in 1..Len(parts) : parts[i] = <<>> \/ AllDigits(parts[i])
        /\ \E i \in 1..Len(parts) : parts[i] # <<>>
NonNumeric(s) ==
    /\ ~Numeral(s)
    /\ ~(StartsWith(s, <<"-">>) /\ Numeral(From(s, 1)))
    /\ ~(StartsWith(s, <<"-", "-">>) /\ Numeral(From(s, 2)))

\* C17: for every decimal X the USAA _convert_price gives +X for "--X" and
\* -X for "-X", exactly; a non-numeric string converts to null.
C17_UsaaAmount ==
    (call.done /\ call.fn = "usaa._convert_price") =>
        /\ \A x \in Amounts :
               /\ call.arg.s = DoubleDash(x) => call.ret = Return(Plus(x))
               /\ call.arg.s = Dash(x) => call.ret = Return(Minus(x))
        /\ NonNumeric(call.arg.s) => call.ret = Return(NoneVal)

\* a non-numeric string was given to the USAA converter, which raised
C17_NonNumericRaised ==
    /\ call.done /\ call.fn = "usaa._convert_price"
    /\ NonNumeric(call.arg.s)
    /\ call.ret = Raise("InvalidOperation")

\* a line of seven fields whose last field (index 6) is the amount written
\* without a sign prefix
UnprefixedLine(line, x) == SevenFields(line) /\ Split(line, ",")[7] = Format(x)

\* C18: for every decimal X written without a sign prefix the USAA
\* _convert_price returns +X, Usaa.get_field returns +X for a line with that
\* amount in column 6, and Usaa.check_amount_column accepts the line.
C18_UnprefixedAmount ==
    /\ (call.done /\ call.fn = "usaa._convert_price") =>
           \A x \in Amounts : call.arg.s = Format(x) => call.ret = Return(Plus(x))
    /\ (call.done /\ call.fn = "Usaa.get_field(amount)") =>
           \A x \in LineAmounts :
               UnprefixedLine(call.arg.s, x) => call.ret = Return(Plus(x))
    /\ (call.done /\ call.fn = "Usaa.check_amount_column") =>
           \A x \in LineAmounts :
               UnprefixedLine(call.arg.s, x) => call.ret = Return(BoolVal(TRUE))

\* get_field was asked for the amount of a line that ends in 1.23 and
\* returned null
C18_UnprefixedNull ==
    /\ call.done /\ call.fn = "Usaa.get_field(amount)"
    /\ UnprefixedLine(call.arg.s, [coef |-> 123, places |-> 2])
    /\ call.ret = Return(NoneVal)

------------------------------------------------------------------------------
(* The date converters *)

DateConverters == {"bbt._convert_date", "usaa._convert_date"}

\* the calendar of the modelled years (every fourth year is a leap year
\* from 1901 to 2099)
MonthLengths(y) ==
    <<31, IF y % 4 = 0 THEN 29 ELSE 28, 31, 30, 31, 30, 31, 31, 30, 31, 30, 31>>
RealDays == {t \in Years \X (1..12) \X (1..31) : t[3] <= MonthLengths(t[1])[t[2]]}

\* the real days written MM/DD/YYYY
PaddedDates ==
    {[text |-> FormatDate(t[1], t[2], t[3]), date |-> DateVal(t[1], t[2], t[3])] :
        t \in RealDays}
\* the real days written with a month and a day of one or two digits
Numerals(n) == {NatStr(n), ZFill(NatStr(n), 2)}
WrittenDates ==
    UNION {{[text |-> mm \o <<"/">> \o dd \o <<"/">> \o ZFill(NatStr(t[1]), 4),
             date |-> DateVal(t[1], t[2], t[3])] :
               mm \in Numerals(t[2]), dd \in Numerals(t[3])} : t \in RealDays}
\* the text a converter reads the date from: the USAA converter first
\* removes the double quotes around the field
DateText(fn, s) == IF fn = "usaa._convert_date" THEN StripChar(s, "\"") ELSE s

------------------------------------------------------------------------------
(* The check number *)

\* a text that is no number once blanks and a sign in front are taken away
NoNumber(s) ==
    LET t == Strip(s)
        body == IF t # <<>> /\ t[1] \in {"+", "-"} THEN Tail(t) ELSE t
    IN  ~Numeral(body)

\* C20: _convert_check returns the sentinel -1 for the empty string, for
\* None and for every non-numeric string; for these it never returns 0 and
\* never raises.
C20_CheckSentinel ==
    (call.done /\ call.fn = "bbt._convert_check"
       /\ (call.arg = NoneVal \/ call.arg.s = <<>> \/ NoNumber(call.arg.s))) =>
        /\ ~Raised(call.ret)
        /\ call.ret.val # IntVal(0)
        /\ call.ret = Return(IntVal(0 - 1))

\* a text that is no number was given as the check number and -1 came back
C20_SentinelReturned ==
    /\ call.done /\ call.fn = "bbt._convert_check"
    /\ call.arg # NoneVal /\ call.arg.s # <<>> /\ NoNumber(call.arg.s)
    /\ call.ret = Return(IntVal(0 - 1))

\* the column that holds the check numbers, before and after the renaming
CheckColumn(frame) == IF InSeq(CHECK_NO, frame.cols) THEN CHECK_NO ELSE CheckNumber

\* C21: a check number written in decimal digits is converted to that very
\* integer, whatever its size: the converted column and the CHECK_NO column
\* of the emitted BBT table hold it, and the conversion does not fail on the
\* 16-bit integer type.
C21_CheckNumberValue ==
    /\ error # "OverflowError"
    /\ (/\ session.klass = "Bbt"
        /\ session.pc \in {"CONVERTED", "REMAPPED", "CLASSIFIED", "DONE"}
        /\ InSeq(CheckNumber, session.file.lines[1]))
       => \A r \in 1..Len(session.frame.rows) :
              AllDigits(RawCell("Bbt", session.file, r, CheckNumber))
                  => Cell(session.frame, r, CheckColumn(session.frame))
                         = IntVal(ToNat(RawCell("Bbt", session.file, r, CheckNumber)))

\* a table was emitted whose CHECK_NO is -25536 for the check number 40000
C21_CheckWrapped ==
    /\ session.klass = "Bbt" /\ session.pc = "DONE"
    /\ \E r \in 1..Len(session.frame.rows) :
           /\ RawCell("Bbt", session.file, r, CheckNumber) = <<"4", "0", "0", "0", "0">>
           /\ Cell(session.frame, r, CHECK_NO) = IntVal(0 - 25536)

------------------------------------------------------------------------------
(* The posted balance *)

\* "$" followed by a number
DollarNumber(s) == StartsWith(s, <<"$">>) /\ ~NoNumber(From(s, 1))

\* C22: _convert_posted_balance returns null, not the sentinel -1, for the
\* empty input, the exact decimal X for "$X", and null for every other
\* string.
C22_PostedBalance ==
    (call.done /\ call.fn = "bbt._convert_posted_balance") =>
        /\ call.arg.s = <<>> => call.ret = Return(NoneVal)
        /\ \A x \in Amounts : call.arg.s = Balance(x) => call.ret = Return(Plus(x))
        /\ ~DollarNumber(call.arg.s) => call.ret = Return(NoneVal)

\* a "$" followed by no number was given as the balance and the call raised
C22_BalanceRaised ==
    /\ call.done /\ call.fn = "bbt._convert_posted_balance"
    /\ ~DollarNumber(call.arg.s)
    /\ call.ret = Raise("InvalidOperation")

------------------------------------------------------------------------------
(* The category classifier *)

\* the description as the rules read it: lower-cased text, nothing for a
\* missing one
Described(v) == IF v.tag = "str" THEN Lower(v.s) ELSE <<>>

\* the category of the first rule, from rule i on, one of whose keywords is
\* in the text
RECURSIVE FirstRule(_, _)
FirstRule(desc, i) ==
    IF i > Len(CategoryRules) THEN "UNKNOWN"
    ELSE IF \E k \in CategoryRules[i].keys : Contains(desc, k) THEN CategoryRules[i].cat
    ELSE FirstRule(desc, i + 1)

\* C23: for every description, a missing one included, _convert_category
\* returns the category name of the first rule, in the order salary,
\* verizon, moneyline fid, kroger/giant, va dmv, dental/walgreens, whose
\* keyword is in the lower-cased description, and the name UNKNOWN when no
\* rule matches; when two rules match the earlier one wins.
C23_FirstRuleWins ==
    (call.done /\ call.fn = "bbt._convert_category") =>
        call.ret = Return([tag |-> "name", name |-> FirstRule(Described(call.arg), 1)])

\* the classifier was given a missing description (None) and returned the
\* category itself instead of its name
C23_MissingGivesEnum ==
    /\ call.done /\ call.fn = "bbt._convert_category"
    /\ call.arg = NoneVal
    /\ call.ret = Return([tag |-> "enum", name |-> "UNKNOWN"])

------------------------------------------------------------------------------
(* Registration under an identifier that is already registered *)

\* C24: a class statement whose identifier is already in the registry is
\* reported as an error by that statement, and the registry keeps the class
\* it held for that identifier
C24_DuplicateReported ==
    [][\A klass \in HandlerClasses :
          (Defs(SUBCLASSES, klass) > 0 /\ DefineSubclass(klass))
          => /\ error' # ""
             /\ Defs(SUBCLASSES', klass) = Defs(SUBCLASSES, klass)]_vars

\* a factory holds the second class of an identifier, no error was reported
\* and from_file has returned a session of that class
C24_EarlierReplaced ==
    /\ error = ""
    /\ calls # <<>>
    /\ \E i \in 1..Len(factory.parsers) :
          /\ factory.parsers[i].def = 2
          /\ calls[Len(calls)].ret = "Parser"
          /\ calls[Len(calls)].klass = factory.parsers[i].name

------------------------------------------------------------------------------
(* The registry over time *)

Registry(d) == {d[i] : i \in 1..Len(d)}
RegistryNames(d) == {d[i].name : i \in 1..Len(d)}

\* C25: no step takes a registered handler class out of Parser.SUBCLASSES,
\* and the steps of the factory, from_directory, from_file and parse leave
\* Parser.SUBCLASSES as it is
C25_RegistryGrowOnly ==
    [][/\ Registry(SUBCLASSES) \subseteq Registry(SUBCLASSES')
       /\ (\A klass \in HandlerClasses : ~DefineSubclass(klass))
             => SUBCLASSES' = SUBCLASSES]_vars

\* a batch has run to its end on a registry from which the first class of
\* an identifier was dropped by a second class statement
C25_HandlerDropped ==
    /\ batch = "finished"
    /\ \E i \in 1..Len(SUBCLASSES) :
          SUBCLASSES[i].def > 1 /\ Class(SUBCLASSES[i].name, 1) \notin Registry(SUBCLASSES)

------------------------------------------------------------------------------
(* The outcome of a file as a function of the file *)

Failed(exc) == [exc |-> exc, frame |-> EmptyFrame]
Emitted(frame) == [exc |-> "", frame |-> frame]

\* Usaa.parse and Bbt.parse after the columns are converted
ParseConverted(klass, frame, account) ==
    IF klass = "Usaa"
    THEN Emitted(Usaa_remap_column_names(
                     Usaa_remove_unconfirmed_transactions(frame), account))
    ELSE \* Bbt
         LET filled == Bbt_fill_categories(Parser_remap_and_fill("Bbt", frame, account))
         IN  IF AstypeExc(filled) # "" THEN Failed(AstypeExc(filled))
             ELSE Emitted(filled)

\* klass(filepath).parse() in one piece, for a file that exists
ParseOutcome(klass, file) ==
    LET detect == is_file_parsable(klass, file, NoneVal)
        raw == RawFrame(klass, file)
    IN  IF Raised(detect) THEN Failed(detect.exc)
        ELSE IF ~detect.val.b THEN Failed("ValueError")
        ELSE IF FirstExc(raw, klass) # "" THEN Failed(FirstExc(raw, klass))
        ELSE ParseConverted(klass, ConvertFrame(raw, klass),
                            parse_account_number(klass, file.name))

\* s is t or t with entries appended
Extends(s, t) == Len(s) >= Len(t) /\ SubSeq(s, 1, Len(t)) = t

------------------------------------------------------------------------------
(* parse() on a file the handler's own detection does not accept *)

\* C27: when is_file_parsable of the session's own class does not return
\* true for the session's file, parse() raises ValueError and no table of
\* that file is emitted
C27_ParseRejectsForeign ==
    (session.pc \notin {"none", "UNPARSED"} /\ ~Accepted(session.detect))
    => /\ session.pc \in {"DETECTED", "REJECTED"}
       /\ session.pc = "REJECTED" => error = "ValueError"
       /\ \A k \in 1..Len(results) : results[k].path # session.file.name

\* parse() has ended with an exception that is not ValueError on a file its
\* handler's detection did not accept
C27_OtherErrorRaised ==
    /\ session.pc = "REJECTED"
    /\ ~Accepted(session.detect)
    /\ error # "ValueError"

------------------------------------------------------------------------------
(* BANK and ACCOUNT of the emitted tables *)

\* whether the base name of the path matches the filename pattern of the class
NameMatches(klass, path) ==
    IF klass = "Bbt" THEN Bbt_FILENAME_PATTERN(Basename(path))
    ELSE Usaa_FILENAME_PATTERN(Basename(path))

\* the four digits that follow the five characters of the prefix
NameDigits(path) == SubSeq(Basename(path), 6, 9)

------------------------------------------------------------------------------
(* Detection with and without the beginning of the file *)

\* "start_of_file = [line for line in Parser.yield_header(filepath, rows=8)];
\* lines = '\n'.join(start_of_file)"
Beginning(file) == StrVal(Join(yield_header(file, 8), <<"\n">>))

\* C29: the result parse() got from is_file_parsable(filepath) of the
\* session's class is the result is_file_parsable(filepath, beginning) of
\* that class has for the same file with the beginning from_file builds
C29_SameWithBeginning ==
    session.pc \notin {"none", "UNPARSED"}
    => session.detect = is_file_parsable(session.klass, session.file,
                                         Beginning(session.file))

\* Bbt.is_file_parsable has accepted a file it refuses when the beginning
\* of that file is passed in
C29_AcceptedWithoutBeginning ==
    /\ session.klass = "Bbt"
    /\ session.pc = "DETECTED"
    /\ Accepted(session.detect)
    /\ ~Accepted(is_file_parsable("Bbt", session.file, Beginning(session.file)))

------------------------------------------------------------------------------
(* The columns of the emitted tables *)

Columns(frame) == {frame.cols[i] : i \in 1..Len(frame.cols)}
CanonicalColumns == {TransactionColumns[i] : i \in 1..Len(TransactionColumns)}

\* C30: the columns of every emitted table are the TransactionColumns names,
\* all of them and no other
C30_CanonicalColumnsOnly ==
    \A k \in 1..Len(results) : Columns(results[k].frame) = CanonicalColumns

\* a USAA table was emitted with the column of the posted flag in it
C30_PostedColumnEmitted ==
    \E k \in 1..Len(results) :
        /\ results[k].klass = "Usaa"
        /\ posted \in Columns(results[k].frame)
        /\ posted \notin CanonicalColumns
====
